---------------------------- MODULE Spec2Model ----------------------------
(***************************************************************************)
(* A model of the cwwvb WWVB decoder (src/decoder.h, src/decoder.cpp).     *)
(*                                                                         *)
(* Six specifications share the module's variables:                        *)
(*   SpecRing  - the two containers of src/tests.cpp (cba, csa) under put  *)
(*   SpecFrame - the decoder's symbol ring fed one symbol at a time, and   *)
(*               decode_minute run on it                                   *)
(*   SpecTime  - a wwvb_time under advance_seconds / advance_minutes       *)
(*   SpecSync  - the decoder's update() fed one sample at a time           *)
(*   SpecSnap  - update() interleaved with a reader that takes snapshots   *)
(*               of the decoder under the retry-on-counter-change protocol *)
(*   SpecLock  - update() fed some noise and then a clean periodic signal  *)
(* Each specification leaves the other parts' variables at their initial   *)
(* values.                                                                 *)
(***************************************************************************)
EXTENDS Integers, Sequences, FiniteSets, TLC

VARIABLES
    target,         \* SpecRing: which container the test driver exercises
    cba,            \* circular_bit_array<6>        (tests.cpp:12)
    csa,            \* circular_symbol_array<6, 4>  (tests.cpp:13)
    hist,           \* ghost: the values put so far, oldest first, last N kept
    nputs,          \* ghost: number of puts made (capped by MaxPuts)
    ret,            \* value returned by the last put (-1: no put yet)
    evicted         \* ghost: value stored N puts before the last put (0 if none)

VARIABLES
    symbols,        \* WWVBDecoder::symbols, circular_symbol_array<SYMBOLS, 2>
    symbol_count,   \* WWVBDecoder::symbol_count
    window,         \* ghost: the symbols emitted so far, oldest first, last 60 kept
    fphase,         \* "lead": symbols before the frame, "frame", "decoded"
    ftime,          \* the time value the transmitter is sending
    fpos,           \* position in the minute of the next symbol to emit
    nsub,           \* number of symbols of the frame received differently from sent
    m,              \* the caller's wwvb_time handed to decode_minute
    dm_result       \* what decode_minute returned ("none" before the call)

VARIABLES
    ww,             \* a wwvb_time the caller advances between frames
    prev,           \* ghost: ww before the last call
    last,           \* ghost: the last call made on ww, and its argument
    adv_done        \* ghost: the last advance_seconds call left its loop

VARIABLES
    dec,            \* SpecSync: the WWVBDecoder that update() is called on
    flag,           \* what the last update() returned
    pre,            \* ghost: the decoder before the last update()
    samples,        \* ghost: the samples admitted, oldest first, last BUFFER kept
    ticks,          \* ghost: number of update() calls made
    quiet,          \* ghost: number of calls since the last one that returned true
    contrib,        \* ghost: the symbols emitted and their health, last SYMBOLS_ kept
    emitted         \* ghost: the last symbol appended (-1: none yet)

VARIABLES
    rpc,            \* SpecSnap: the reader's position ("off": no reader)
    rnext,          \* index in SnapshotMembers of the member copied next
    seen,           \* the sample_count the reader recorded before copying
    copy,           \* the reader's buffer, filled one member at a time
    snap,           \* the last snapshot the reader accepted
    naccepted,      \* number of snapshots accepted
    truth,          \* ghost: the decoder's members when snap was accepted
    snap_prev,      \* ghost: the snapshot accepted before snap
    dirty,          \* ghost: update() ran since the last acceptance
    between,        \* ghost: update() ran between the last two acceptances
    retried         \* ghost: the reader discarded a copy at least once

VARIABLES
    lphase,         \* SpecLock: "noise", then "clean" ("off": no such input)
    lq,             \* the phase (subsec) at which every clean pulse starts
    lsym,           \* the symbol sent in the current clean second
    nclean,         \* number of clean samples admitted
    strayed         \* ghost: a boundary was declared off phase lq after the
                    \* history window held clean samples only

ringVars == <<target, cba, csa, hist, nputs, ret, evicted>>

frameVars == <<symbols, symbol_count, window, fphase, ftime, fpos, nsub, m, dm_result>>

timeVars == <<ww, prev, last, adv_done>>

decVars == <<dec, flag, pre, samples, ticks, quiet, contrib, emitted>>

readerVars == <<rpc, rnext, seen, copy, snap, naccepted, truth, snap_prev, dirty, between, retried>>

lockVars == <<lphase, lq, lsym, nclean, strayed>>

syncVars == <<decVars, readerVars, lockVars>>

vars == <<ringVars, frameVars, timeVars, syncVars>>

(***************************************************************************)
(* Bounds of the model.                                                    *)
(***************************************************************************)
MaxPuts == 14

\* At most this many symbols of a frame are received differently from sent.
MaxSubst == 1

\* A wwvb_time is advanced while it is in hour 23 or in the first MaxMinute
\* minutes of the next day.
MaxMinute == 1

\* The instantiation WWVBDecoder<SUBSEC_, SYMBOLS_, HISTORY_> that update()
\* is checked on (the program's defaults are 50, 60, 40), and the number of
\* update() calls made on it.
SUBSEC_ == 5
SYMBOLS_ == 2
HISTORY_ == 3
MaxTicks == 17

\* With a reader: the number of update() calls, and of snapshots accepted.
MaxSnapTicks == 5
MaxReads == 2

\* The number of arbitrary samples fed before the clean signal starts.
MaxNoise == 4

(***************************************************************************)
(* circular_bit_array<N>.  `data` is the set of indices of the bits that   *)
(* are 1 in the packed word array (bit k is bit k % 32 of word k / 32);    *)
(* the array has (N + 31) / 32 words, all zero after construction.         *)
(***************************************************************************)
WordBits == 32

circular_bit_array(N) == [data |-> {}, shift |-> 0]

\* Number of bits the word array of a circular_bit_array<N> holds.  For the
\* sizes the program uses (6, 24, 120, 2000) it exceeds N: bit N exists, put
\* never writes it, and it stays 0.
StorageBits(N) == ((N + 31) \div WordBits) * WordBits

\* The index of the bit that at(i) reads.
circular_bit_array_slot(N, a, i) ==
    LET k == i + a.shift
    IN  IF k > N THEN k - N ELSE k

circular_bit_array_at(N, a, i) ==
    IF circular_bit_array_slot(N, a, i) \in a.data THEN 1 ELSE 0

\* A put that returns the bit it has just written instead of the one it evicts.
circular_bit_array_put_written(N, a, b) ==
    [a      |-> [data  |-> IF b # 0 THEN a.data \cup {a.shift}
                                    ELSE a.data \ {a.shift},
                 shift |-> IF a.shift + 1 = N THEN 0 ELSE a.shift + 1],
     result |-> IF b # 0 THEN 1 ELSE 0]

\* put(b): the array afterwards, and the returned (evicted) bit.
circular_bit_array_put(N, a, b) ==
    [a      |-> [data  |-> IF b # 0 THEN a.data \cup {a.shift}
                                    ELSE a.data \ {a.shift},
                 shift |-> IF a.shift + 1 = N THEN 0 ELSE a.shift + 1],
     result |-> IF a.shift \in a.data THEN 1 ELSE 0]

(***************************************************************************)
(* circular_symbol_array<N, M>: a circular_bit_array<M * N>.               *)
(***************************************************************************)
Pow2(n) == 2 ^ n

circular_symbol_array(N, M) == circular_bit_array(M * N)

RECURSIVE symbol_at_loop(_, _, _, _, _, _)
symbol_at_loop(N, M, s, i, j, result) ==
    IF j < M
    THEN symbol_at_loop(N, M, s, i, j + 1,
                        result * 2 + circular_bit_array_at(M * N, s, i * M + j))
    ELSE result

circular_symbol_array_at(N, M, s, i) == symbol_at_loop(N, M, s, i, 0, 0)

\* One pass of put's loop: v & (1 << (M - 1)) is bit M-1 of the shifted v.
RECURSIVE symbol_put_loop(_, _, _, _, _, _)
symbol_put_loop(N, M, s, v, j, result) ==
    IF j < M
    THEN LET p == circular_bit_array_put(M * N, s, (v \div Pow2(M - 1)) % 2)
         IN  symbol_put_loop(N, M, p.a, v * 2, j + 1, result * 2 + p.result)
    ELSE [a |-> s, result |-> result]

circular_symbol_array_put(N, M, s, v) == symbol_put_loop(N, M, s, v, 0, 0)

(***************************************************************************)
(* wwvb_time, and the frame decoder of WWVBDecoder<50, 60, 40>.            *)
(***************************************************************************)
SYMBOLS == 60
SymbolBits == 2

ZERO == 0
ONE == 1
MARK == 2
INVALID == 3
Symbol == {ZERO, ONE, MARK, INVALID}

wwvb_time(yday, year, hour, minute, second, ls, ly, dst, dut1) ==
    [yday |-> yday, year |-> year, hour |-> hour, minute |-> minute,
     second |-> second, ls |-> ls, ly |-> ly, dst |-> dst, dut1 |-> dut1]

\* symbols.at(SYMBOLS - 60 + i)
SymAt(s, i) == circular_symbol_array_at(SYMBOLS, SymbolBits, s, SYMBOLS - 60 + i)

\* decode_bcd(d, c, b, a): one decade; an argument of -1 is an absent digit.
decode_bcd(s, d, c, b, a) ==
    (IF a >= 0 THEN SymAt(s, a) * 8 ELSE 0) +
    (IF b >= 0 THEN SymAt(s, b) * 4 ELSE 0) +
    (IF c >= 0 THEN SymAt(s, c) * 2 ELSE 0) +
    SymAt(s, d) * 1

\* The variadic decode_bcd: `decades` lists the (d, c, b, a) of each decade,
\* least significant first.  Yields the value and whether any decade set bcderr.
RECURSIVE decode_bcd_rest(_, _)
decode_bcd_rest(s, decades) ==
    LET g == Head(decades)
        r == decode_bcd(s, g[1], g[2], g[3], g[4])
    IN  IF Len(decades) = 1
        THEN [r |-> r, bcderr |-> r > 9]
        ELSE LET rest == decode_bcd_rest(s, Tail(decades))
             IN  [r |-> r + 10 * rest.r, bcderr |-> (r > 9) \/ rest.bcderr]

is_mark(i) == (i = 0) \/ (i % 10 = 9)

is_zero(i) == (i % 10 = 4) \/ i = 10 \/ i = 11 \/ i = 20 \/ i = 21 \/ i = 35

\* The loop at the head of decode_minute.
skeleton_ok(s) ==
    \A i \in 0 .. 59 :
        LET sym == SymAt(s, i)
        IN  /\ is_mark(i) = (sym = 2)
            /\ is_zero(i) => sym = 0

\* decode_minute(m0): the returned bool, and the caller's struct afterwards.
decode_minute(s, m0) ==
    IF ~skeleton_ok(s)
    THEN [result |-> FALSE, m |-> m0]
    ELSE
    LET year    == decode_bcd_rest(s, << <<53, 52, 51, 50>>, <<48, 47, 46, 45>> >>)
        yday    == decode_bcd_rest(s, << <<33, 32, 31, 30>>, <<28, 27, 26, 25>>,
                                         <<23, 22, -1, -1>> >>)
        hour    == decode_bcd_rest(s, << <<18, 17, 16, 15>>, <<13, 12, -1, -1>> >>)
        minute  == decode_bcd_rest(s, << <<8, 7, 6, 5>>, <<3, 2, 1, -1>> >>)
        ly      == decode_bcd_rest(s, << <<55, -1, -1, -1>> >>)
        ls      == decode_bcd_rest(s, << <<56, -1, -1, -1>> >>)
        dst     == decode_bcd_rest(s, << <<58, 57, -1, -1>> >>)
        abs_dut1  == decode_bcd_rest(s, << <<43, 42, 41, 40>> >>)
        dut1_sign == decode_bcd_rest(s, << <<38, 37, 36, -1>> >>)
        bcderr  == \/ year.bcderr \/ yday.bcderr \/ hour.bcderr \/ minute.bcderr
                   \/ ly.bcderr \/ ls.bcderr \/ dst.bcderr
                   \/ abs_dut1.bcderr \/ dut1_sign.bcderr
                   \/ dut1_sign.r \notin {2, 5}
        dut1    == CASE dut1_sign.r = 2 -> 0 - abs_dut1.r
                     [] dut1_sign.r = 5 -> abs_dut1.r
                     [] OTHER -> m0.dut1
    IN  [result |-> ~bcderr,
         m |-> wwvb_time(yday.r, year.r, hour.r, minute.r, 0, ls.r, ly.r, dst.r, dut1)]

(***************************************************************************)
(* wwvb_time arithmetic (src/decoder.cpp).                                 *)
(***************************************************************************)

\* Conversion of an int to int8_t.
Int8(x) == ((x + 128) % 256) - 128

seconds_in_minute(t) ==
    IF t.ls # 0 /\ t.hour = 23 /\ t.minute = 59
    THEN LET y == t.yday - t.ly
         IN  IF y = 181 \/ y = 365
             THEN (IF t.dut1 < 0 THEN 61 ELSE 59)
             ELSE 60
    ELSE 60

isly(year) ==
    IF year % 400 # 0 THEN TRUE
    ELSE IF year % 100 # 0 THEN FALSE
    ELSE IF year % 4 # 0 THEN FALSE
    ELSE TRUE

last_yday(year) == 365 + (IF isly(year) THEN 1 ELSE 0)

\* A leave_minute that clears ls and forgets to renormalize dut1.
leave_minute_keep_dut1(t) ==
    IF seconds_in_minute(t) # 60 THEN [t EXCEPT !.ls = 0] ELSE t

\* The head of advance_minutes: leaving a minute that is not 60 seconds long.
leave_minute(t) ==
    IF seconds_in_minute(t) # 60
    THEN [t EXCEPT !.ls = 0,
                   !.dut1 = IF t.dut1 < 0 THEN Int8(t.dut1 + 10)
                            ELSE IF t.dut1 > 0 THEN Int8(t.dut1 - 10)
                            ELSE t.dut1]
    ELSE t

\* A day rollover with the two transitions exchanged.
dst_rollover_swapped(dst) == IF dst = 1 THEN 3 ELSE IF dst = 2 THEN 0 ELSE dst

\* The dst code after a day rollover.
dst_rollover(dst) == IF dst = 1 THEN 0 ELSE IF dst = 2 THEN 3 ELSE dst

\* minute -> hour -> day -> year carry of advance_minutes.
minute_carry(t) ==
    LET t1 == [t EXCEPT !.second = 0, !.minute = Int8(t.minute + 1)]
    IN  IF t1.minute < 60 THEN t1
        ELSE
        LET t2 == [t1 EXCEPT !.minute = 0, !.hour = Int8(t1.hour + 1)]
        IN  IF t2.hour < 24 THEN t2
            ELSE
            LET t3 == [t2 EXCEPT !.hour = 0, !.yday = t2.yday + 1,
                                 !.dst = dst_rollover(t2.dst)]
            IN  IF t3.yday < last_yday(t3.year) THEN t3
                ELSE LET year == Int8(t3.year + 1)
                     IN  [t3 EXCEPT !.yday = 1, !.year = year,
                                    !.ly = IF isly(year) THEN 1 ELSE 0]

\* advance_minutes(n); the body never reads n.
advance_minutes(t, n) == minute_carry(leave_minute(t))

\* The loop of advance_seconds on the local `second`.  `fuel` bounds the
\* number of passes the model follows; done is FALSE when it runs out.
RECURSIVE advance_seconds_loop(_, _, _)
advance_seconds_loop(t, second, fuel) ==
    IF second >= seconds_in_minute(t)
    THEN IF fuel = 0
         THEN [t |-> t, second |-> second, done |-> FALSE]
         ELSE IF t.ls # 0
              THEN advance_seconds_loop(advance_minutes(t, 1),
                                        second - seconds_in_minute(t), fuel - 1)
              ELSE advance_seconds_loop(advance_minutes(t, second \div 60),
                                        second % 60, fuel - 1)
    ELSE [t |-> t, second |-> second, done |-> TRUE]

\* An advance_seconds with `if` in place of `while`: one pass at most.
advance_seconds_if(t, n) ==
    LET second == t.second + n
        r == IF second >= seconds_in_minute(t)
             THEN IF t.ls # 0
                  THEN [t |-> advance_minutes(t, 1),
                        second |-> second - seconds_in_minute(t)]
                  ELSE [t |-> advance_minutes(t, second \div 60),
                        second |-> second % 60]
             ELSE [t |-> t, second |-> second]
    IN  [t |-> [r.t EXCEPT !.second = Int8(r.second)], done |-> TRUE]

\* advance_seconds(n), n >= 0.  Every pass of a loop that ends lowers
\* `second`, so second + 1 passes are followed.
advance_seconds(t, n) ==
    LET second == t.second + n
        r == advance_seconds_loop(t, second, second + 1)
    IN  [t |-> [r.t EXCEPT !.second = Int8(r.second)], done |-> r.done]

(***************************************************************************)
(* The transmitted frame of a time value: the layout decode_minute reads,  *)
(* inverted.  DUT1 sign code: 2 (negative) or 5 (positive).                *)
(***************************************************************************)
Bit(n, w) == (n \div w) % 2

EncodeFrame(t) ==
    LET abs_dut1 == IF t.dut1 < 0 THEN 0 - t.dut1 ELSE t.dut1
        sign     == IF t.dut1 < 0 THEN 2 ELSE 5
        mt == t.minute \div 10   mu == t.minute % 10
        ht == t.hour \div 10     hu == t.hour % 10
        dh == t.yday \div 100    dt == (t.yday \div 10) % 10   du == t.yday % 10
        yt == t.year \div 10     yu == t.year % 10
        bits == [i \in {} |-> 0] @@
            (1 :> Bit(mt, 4)) @@ (2 :> Bit(mt, 2)) @@ (3 :> Bit(mt, 1)) @@
            (5 :> Bit(mu, 8)) @@ (6 :> Bit(mu, 4)) @@ (7 :> Bit(mu, 2)) @@ (8 :> Bit(mu, 1)) @@
            (12 :> Bit(ht, 2)) @@ (13 :> Bit(ht, 1)) @@
            (15 :> Bit(hu, 8)) @@ (16 :> Bit(hu, 4)) @@ (17 :> Bit(hu, 2)) @@ (18 :> Bit(hu, 1)) @@
            (22 :> Bit(dh, 2)) @@ (23 :> Bit(dh, 1)) @@
            (25 :> Bit(dt, 8)) @@ (26 :> Bit(dt, 4)) @@ (27 :> Bit(dt, 2)) @@ (28 :> Bit(dt, 1)) @@
            (30 :> Bit(du, 8)) @@ (31 :> Bit(du, 4)) @@ (32 :> Bit(du, 2)) @@ (33 :> Bit(du, 1)) @@
            (36 :> Bit(sign, 4)) @@ (37 :> Bit(sign, 2)) @@ (38 :> Bit(sign, 1)) @@
            (40 :> Bit(abs_dut1, 8)) @@ (41 :> Bit(abs_dut1, 4)) @@
            (42 :> Bit(abs_dut1, 2)) @@ (43 :> Bit(abs_dut1, 1)) @@
            (45 :> Bit(yt, 8)) @@ (46 :> Bit(yt, 4)) @@ (47 :> Bit(yt, 2)) @@ (48 :> Bit(yt, 1)) @@
            (50 :> Bit(yu, 8)) @@ (51 :> Bit(yu, 4)) @@ (52 :> Bit(yu, 2)) @@ (53 :> Bit(yu, 1)) @@
            (55 :> t.ly) @@ (56 :> t.ls) @@
            (57 :> Bit(t.dst, 2)) @@ (58 :> Bit(t.dst, 1))
    IN  [i \in 0 .. 59 |->
            IF is_mark(i) THEN MARK
            ELSE IF i \in DOMAIN bits THEN bits[i] ELSE ZERO]

(***************************************************************************)
(* The sampling side of WWVBDecoder<SUBSEC_, SYMBOLS_, HISTORY_>: update() *)
(* and decode_symbol().  The template is checked at the instantiation      *)
(* given by the bounds SUBSEC_, SYMBOLS_ and HISTORY_.  The decoder is a   *)
(* record of the struct's members.                                         *)
(***************************************************************************)
BUFFER == SUBSEC_ * HISTORY_

WWVBDecoder ==
    [ sample_count   |-> 0,
      symbol_count   |-> 0,
      signal         |-> circular_bit_array(BUFFER),
      counts         |-> [i \in 0 .. SUBSEC_ - 1 |-> 0],
      edges          |-> [i \in 0 .. SUBSEC_ - 1 |-> 0],
      health         |-> 0,
      health_history |-> [i \in 0 .. SYMBOLS_ - 1 |-> 0],
      subsec         |-> 0,
      sos            |-> 0,
      tss            |-> 0,
      symbols        |-> circular_symbol_array(SYMBOLS_, SymbolBits) ]

UInt8(x) == x % 256

\* An update that leaves the sample counter alone.
count_sample_skipped(sample_count) == sample_count

\* sample_count++
count_sample(sample_count) == sample_count + 1

\* An update that forgets the evicted sample.
count_edge_no_evict(counts, subsec, b, ob) ==
    IF b = 1 /\ ob = 0 THEN [counts EXCEPT ![subsec] = @ + 1] ELSE counts

\* counts[subsec] follows the sample admitted (b) and the one evicted (ob).
count_edge(counts, subsec, b, ob) ==
    IF b = 1 /\ ob = 0 THEN [counts EXCEPT ![subsec] = @ + 1]
    ELSE IF b = 0 /\ ob = 1 THEN [counts EXCEPT ![subsec] = @ - 1]
    ELSE counts

next_subsec(subsec) == IF subsec = SUBSEC_ - 1 THEN 0 ELSE subsec + 1

\* An edge taken with the opposite sign.
update_edge_falling(edges, counts, subsec) ==
    [edges EXCEPT ![subsec] = counts[subsec] - counts[next_subsec(subsec)]]

\* edges[subsec] = counts[subsec1] - counts[subsec]
update_edge(edges, counts, subsec) ==
    [edges EXCEPT ![subsec] = counts[next_subsec(subsec)] - counts[subsec]]

\* The scan for the largest edge: the first index of the largest positive
\* entry, 0 if none is positive.
RECURSIVE best_edge(_, _, _, _)
best_edge(edges, i, bi, best) ==
    IF i < SUBSEC_
    THEN IF edges[i] > best
         THEN best_edge(edges, i + 1, i, edges[i])
         ELSE best_edge(edges, i + 1, bi, best)
    ELSE bi

\* A start of second placed on the phase before the edge.
start_of_second_early(bi) == bi

\* sos = bi == SUBSEC - 1 ? 0 : bi + 1
start_of_second(bi) == IF bi = SUBSEC_ - 1 THEN 0 ELSE bi + 1

\* A decision that also accepts a boundary at tss = SUBSEC / 2.
is_boundary_early(tss, subsec, sos, osos) ==
    IF tss > SUBSEC_ THEN TRUE
    ELSE IF tss >= SUBSEC_ \div 2 THEN subsec = sos \/ subsec = osos
    ELSE FALSE

\* The boundary decision, on tss before the call and subsec after advancing.
is_boundary(tss, subsec, sos, osos) ==
    IF tss > SUBSEC_ THEN TRUE
    ELSE IF tss > SUBSEC_ \div 2 THEN subsec = sos \/ subsec = osos
    ELSE FALSE

\* A tss that keeps counting through a boundary.
next_tss_no_reset(tss, result) == tss + 1

next_tss(tss, result) == IF result THEN 0 ELSE tss + 1

RECURSIVE count(_, _, _)
count(signal, i, j) ==
    IF i < j THEN circular_bit_array_at(BUFFER, signal, i) + count(signal, i + 1, j)
    ELSE 0

ms_in_subsec(ms) == (ms * SUBSEC_ + SUBSEC_ \div 2) \div 1000

p0 == ms_in_subsec(0)
p1 == ms_in_subsec(200)
p2 == ms_in_subsec(500)
p3 == ms_in_subsec(800)
p4 == ms_in_subsec(1000)

la == p1 - p0
lb == p2 - p1
lc == p3 - p2
ld == p4 - p3

check_health(cnt, length, expect) == IF expect THEN cnt ELSE length - cnt

OFFSET == BUFFER - SUBSEC_

\* The symbol decode_symbol() reads from the signal buffer.
classify(signal) ==
    LET count_b == count(signal, OFFSET + p1, OFFSET + p2)
        count_c == count(signal, OFFSET + p2, OFFSET + p3)
    IN  IF count_c > lc \div 2
        THEN (IF count_b > lb \div 2 THEN MARK ELSE INVALID)
        ELSE IF count_b > lb \div 2 THEN ONE
        ELSE ZERO

\* The health h that decode_symbol() gives the symbol.
symbol_health(signal) ==
    LET count_a == count(signal, OFFSET + p0, OFFSET + p1)
        count_b == count(signal, OFFSET + p1, OFFSET + p2)
        count_c == count(signal, OFFSET + p2, OFFSET + p3)
        count_d == count(signal, OFFSET + p3, OFFSET + p4)
        result  == classify(signal)
    IN  IF result # INVALID
        THEN check_health(count_a, la, TRUE)
             + check_health(count_b, lb, result # ZERO)
             + check_health(count_c, lc, result = MARK)
             + check_health(count_d, ld, FALSE)
        ELSE 0

\* A running sum that never takes the replaced entry out.
add_health_no_sub(health, h, oh) == health + h

\* health += (h - oh)
add_health(health, h, oh) == health + (h - oh)

decode_symbol(d) ==
    LET result == classify(d.signal)
        h      == symbol_health(d.signal)
        si     == d.symbol_count % SYMBOLS_
        oh     == d.health_history[si]
    IN  [d EXCEPT !.symbol_count   = @ + 1,
                  !.health_history = [@ EXCEPT ![si] = UInt8(h)],
                  !.health         = add_health(@, h, oh),
                  !.symbols        = circular_symbol_array_put(SYMBOLS_, SymbolBits,
                                                               @, result).a]

\* update(b): the decoder afterwards, and the returned flag.
update(d, b) ==
    LET put     == circular_bit_array_put(BUFFER, d.signal, b)
        counts  == count_edge(d.counts, d.subsec, b, put.result)
        subsec1 == next_subsec(d.subsec)
        edges   == update_edge(d.edges, counts, d.subsec)
        bi      == best_edge(edges, 0, 0, 0)
        osos    == d.sos
        sos     == start_of_second(bi)
        result  == is_boundary(d.tss, subsec1, sos, osos)
        d1      == [d EXCEPT !.sample_count = count_sample(@),
                             !.signal       = put.a,
                             !.counts       = counts,
                             !.edges        = edges,
                             !.sos          = sos,
                             !.subsec       = subsec1,
                             !.tss          = next_tss(@, result)]
    IN  [d      |-> IF result THEN decode_symbol(d1) ELSE d1,
         result |-> result]

\* What a caller's struct holds before it is first decoded into.
CallerTime == wwvb_time(-1, -1, -1, -1, -1, -1, -1, -1, -1)

(***************************************************************************)
(* SpecTime: a decoded wwvb_time (second = 0) advanced by the caller.      *)
(***************************************************************************)

\* (year, ly, yday): the leap-second days of a leap and of a common year,
\* day 365 of a leap year, and an ordinary day.
TimeDays ==
    { <<16, 1, 182>>, <<16, 1, 366>>, <<16, 1, 365>>, <<16, 1, 73>>,
      <<21, 0, 181>>, <<21, 0, 365>>, <<21, 0, 311>> }

TimeDut1 == {-4, 0, 3}

\* Arguments of advance_seconds and of advance_minutes.
AdvanceSecondsArgs == {0, 1, 2, 59, 60, 61, 121}

AdvanceMinutesArgs == {1, 2}

TimeInits ==
    { wwvb_time(d[3], d[1], 23, 58, 0, ls, d[2], dst, dut1) :
        d \in TimeDays, ls \in {0, 1}, dst \in 0 .. 3, dut1 \in TimeDut1 }

NoCall == [op |-> "none", n |-> 0]

TimeIdle ==
    /\ ww = CallerTime
    /\ prev = CallerTime
    /\ last = NoCall
    /\ adv_done = TRUE

TimeInit ==
    /\ ww \in TimeInits
    /\ prev = ww
    /\ last = NoCall
    /\ adv_done = TRUE

InScope(t) == t.hour = 23 \/ (t.hour = 0 /\ t.minute < MaxMinute)

AdvanceSeconds(n) ==
    /\ InScope(ww)
    /\ LET r == advance_seconds(ww, n)
       IN  /\ ww' = r.t
           /\ adv_done' = r.done
    /\ prev' = ww
    /\ last' = [op |-> "advance_seconds", n |-> n]
    /\ UNCHANGED <<ringVars, frameVars, syncVars>>

AdvanceMinutes(n) ==
    /\ InScope(ww)
    /\ ww' = advance_minutes(ww, n)
    /\ prev' = ww
    /\ last' = [op |-> "advance_minutes", n |-> n]
    /\ UNCHANGED <<adv_done, ringVars, frameVars, syncVars>>

NextTime ==
    \/ \E n \in AdvanceSecondsArgs : AdvanceSeconds(n)
    \/ \E n \in AdvanceMinutesArgs : AdvanceMinutes(n)

\* The time values sent.
FrameTimes ==
    { wwvb_time(366, 16, 23, 59, 0, 1, 1, 0, -4),
      wwvb_time(173, 99, 21, 38, 0, 0, 0, 2, 3) }

FrameIdle ==
    /\ symbols = circular_symbol_array(SYMBOLS, SymbolBits)
    /\ symbol_count = 0
    /\ window = <<>>
    /\ fphase = "idle"
    /\ ftime = CallerTime
    /\ fpos = 0
    /\ nsub = 0
    /\ m = CallerTime
    /\ dm_result = "none"

(***************************************************************************)
(* SpecRing: the globals of src/tests.cpp under arbitrary puts.            *)
(***************************************************************************)
CbaN == 6
CsaN == 6
CsaM == 4

\* Symbol values the driver puts into csa: both extremes, and values whose
\* top bit is set and clear.
CsaValues == {0, 5, 9, 15}

Append1(h, N, v) == IF Len(h) < N THEN Append(h, v) ELSE Append(Tail(h), v)

Oldest(h, N) == IF Len(h) < N THEN 0 ELSE Head(h)

RingIdle ==
    /\ target = "none"
    /\ cba = circular_bit_array(CbaN)
    /\ csa = circular_symbol_array(CsaN, CsaM)
    /\ hist = <<>>
    /\ nputs = 0
    /\ ret = -1
    /\ evicted = 0

RingInit ==
    /\ target \in {"cba", "csa"}
    /\ cba = circular_bit_array(CbaN)
    /\ csa = circular_symbol_array(CsaN, CsaM)
    /\ hist = <<>>
    /\ nputs = 0
    /\ ret = -1
    /\ evicted = 0

CbaPut(b) ==
    /\ target = "cba"
    /\ nputs < MaxPuts
    /\ LET p == circular_bit_array_put(CbaN, cba, b)
       IN  /\ cba' = p.a
           /\ ret' = p.result
    /\ evicted' = Oldest(hist, CbaN)
    /\ hist' = Append1(hist, CbaN, b)
    /\ nputs' = nputs + 1
    /\ UNCHANGED <<target, csa, frameVars, timeVars, syncVars>>

CsaPut(v) ==
    /\ target = "csa"
    /\ nputs < MaxPuts
    /\ LET p == circular_symbol_array_put(CsaN, CsaM, csa, v)
       IN  /\ csa' = p.a
           /\ ret' = p.result
    /\ evicted' = Oldest(hist, CsaN)
    /\ hist' = Append1(hist, CsaN, v)
    /\ nputs' = nputs + 1
    /\ UNCHANGED <<target, cba, frameVars, timeVars, syncVars>>

NextRing ==
    \/ \E b \in {0, 1} : CbaPut(b)
    \/ \E v \in CsaValues : CsaPut(v)

(***************************************************************************)
(* SpecSync: update() called with arbitrary samples.                       *)
(***************************************************************************)
DecoderInit ==
    /\ dec = WWVBDecoder
    /\ flag = FALSE
    /\ pre = WWVBDecoder
    /\ samples = <<>>
    /\ ticks = 0
    /\ quiet = 0
    /\ contrib = <<>>
    /\ emitted = -1

\* One call of update(b), with the ghosts that record it.
Sample(b) ==
    LET u == update(dec, b)
    IN  /\ dec' = u.d
        /\ flag' = u.result
        /\ pre' = dec
        /\ samples' = Append1(samples, BUFFER, b)
        /\ ticks' = ticks + 1
        /\ quiet' = IF u.result THEN 0 ELSE quiet + 1
        /\ contrib' = IF u.result
                      THEN Append1(contrib, SYMBOLS_,
                                   [symbol |-> classify(u.d.signal),
                                    h      |-> symbol_health(u.d.signal)])
                      ELSE contrib
        /\ emitted' = IF u.result THEN classify(u.d.signal) ELSE emitted

\* The members a snapshot holds.
SnapshotMembers == <<"symbols", "counts", "edges", "subsec", "sos", "tss">>

Snapshot(d) == [f \in {SnapshotMembers[i] : i \in 1 .. Len(SnapshotMembers)} |-> d[f]]

ReaderIdle ==
    /\ rpc = "off"
    /\ rnext = 1
    /\ seen = 0
    /\ copy = Snapshot(WWVBDecoder)
    /\ snap = Snapshot(WWVBDecoder)
    /\ naccepted = 0
    /\ truth = Snapshot(WWVBDecoder)
    /\ snap_prev = Snapshot(WWVBDecoder)
    /\ dirty = FALSE
    /\ between = FALSE
    /\ retried = FALSE

ReaderInit ==
    /\ rpc = "idle"
    /\ rnext = 1
    /\ seen = 0
    /\ copy = Snapshot(WWVBDecoder)
    /\ snap = Snapshot(WWVBDecoder)
    /\ naccepted = 0
    /\ truth = Snapshot(WWVBDecoder)
    /\ snap_prev = Snapshot(WWVBDecoder)
    /\ dirty = FALSE
    /\ between = FALSE
    /\ retried = FALSE

LockIdle ==
    /\ lphase = "off"
    /\ lq = 0
    /\ lsym = ZERO
    /\ nclean = 0
    /\ strayed = FALSE

SyncInit == DecoderInit /\ ReaderIdle /\ LockIdle

Update(b) ==
    /\ ticks < MaxTicks
    /\ Sample(b)
    /\ UNCHANGED <<readerVars, lockVars, ringVars, frameVars, timeVars>>

NextSync == \E b \in {0, 1} : Update(b)

(***************************************************************************)
(* SpecSnap: a reader in another execution context takes snapshots while   *)
(* update() keeps being called.  Every update() call is one step; the      *)
(* reader's steps fall between calls.                                      *)
(***************************************************************************)
SnapInit == DecoderInit /\ ReaderInit /\ LockIdle

\* update() runs to completion between two steps of the reader.
SnapUpdate(b) ==
    /\ rpc # "off"
    /\ ticks < MaxSnapTicks
    /\ Sample(b)
    /\ dirty' = TRUE
    /\ UNCHANGED <<rpc, rnext, seen, copy, snap, naccepted, truth, snap_prev, between, retried>>
    /\ UNCHANGED <<lockVars, ringVars, frameVars, timeVars>>

\* The reader records the sample counter.
ReadBegin ==
    /\ rpc = "idle"
    /\ naccepted < MaxReads
    /\ seen' = dec.sample_count
    /\ rpc' = "copy"
    /\ rnext' = 1
    /\ UNCHANGED <<copy, snap, naccepted, truth, snap_prev, dirty, between, retried>>
    /\ UNCHANGED <<decVars, lockVars, ringVars, frameVars, timeVars>>

\* The reader copies the next member.
ReadCopy ==
    /\ rpc = "copy"
    /\ copy' = [copy EXCEPT ![SnapshotMembers[rnext]] = dec[SnapshotMembers[rnext]]]
    /\ rpc' = IF rnext = Len(SnapshotMembers) THEN "check" ELSE "copy"
    /\ rnext' = IF rnext = Len(SnapshotMembers) THEN 1 ELSE rnext + 1
    /\ UNCHANGED <<seen, snap, naccepted, truth, snap_prev, dirty, between, retried>>
    /\ UNCHANGED <<decVars, lockVars, ringVars, frameVars, timeVars>>

\* The counter has not changed: the copy is the snapshot.
ReadAccept ==
    /\ rpc = "check"
    /\ dec.sample_count = seen
    /\ snap' = copy
    /\ naccepted' = naccepted + 1
    /\ truth' = Snapshot(dec)
    /\ snap_prev' = snap
    /\ between' = dirty
    /\ dirty' = FALSE
    /\ rpc' = "idle"
    /\ UNCHANGED <<rnext, seen, copy, retried>>
    /\ UNCHANGED <<decVars, lockVars, ringVars, frameVars, timeVars>>

\* The counter has changed: the copy is discarded and the read starts again.
ReadRetry ==
    /\ rpc = "check"
    /\ dec.sample_count # seen
    /\ seen' = dec.sample_count
    /\ rpc' = "copy"
    /\ rnext' = 1
    /\ retried' = TRUE
    /\ UNCHANGED <<copy, snap, naccepted, truth, snap_prev, dirty, between>>
    /\ UNCHANGED <<decVars, lockVars, ringVars, frameVars, timeVars>>

NextSnap ==
    \/ \E b \in {0, 1} : SnapUpdate(b)
    \/ ReadBegin
    \/ ReadCopy
    \/ ReadAccept
    \/ ReadRetry

(***************************************************************************)
(* SpecLock: update() is called with up to MaxNoise arbitrary samples and  *)
(* from then on with a noise-free signal of period SUBSEC: every second a  *)
(* ZERO, ONE or MARK pulse, asserted for the first p1, p2 or p3 samples    *)
(* from phase lq and clear for the rest.                                   *)
(***************************************************************************)
LockInit ==
    /\ DecoderInit
    /\ ReaderIdle
    /\ lphase = "noise"
    /\ lq = 0
    /\ lsym = ZERO
    /\ nclean = 0
    /\ strayed = FALSE

\* The number of samples a symbol's pulse is asserted for.
PulseLength(sym) == IF sym = MARK THEN p3 ELSE IF sym = ONE THEN p2 ELSE p1

\* Clean samples admitted after the window holds clean samples only, by
\* which the boundaries have settled: tss at phase lq, at most SUBSEC / 2
\* when it is too small for a boundary, drops by 2 with every forced
\* boundary.
LockTicks == SUBSEC_ * (SUBSEC_ \div 4 + 2)

MaxClean == BUFFER + LockTicks + 2 * SUBSEC_

NoiseSample(b) ==
    /\ lphase = "noise"
    /\ ticks < MaxNoise
    /\ Sample(b)
    /\ UNCHANGED <<lockVars, readerVars, ringVars, frameVars, timeVars>>

\* The clean signal starts, somewhere in a second that sends sym.
StartClean(q, sym) ==
    /\ lphase = "noise"
    /\ lphase' = "clean"
    /\ lq' = q
    /\ lsym' = sym
    /\ UNCHANGED <<nclean, strayed>>
    /\ UNCHANGED <<decVars, readerVars, ringVars, frameVars, timeVars>>

\* One clean sample; at phase lq a new second starts, sending sym.
CleanSample(sym) ==
    /\ lphase = "clean"
    /\ nclean < MaxClean
    /\ LET cur == IF dec.subsec = lq THEN sym ELSE lsym
           b   == IF (dec.subsec - lq) % SUBSEC_ < PulseLength(cur) THEN 1 ELSE 0
           u   == update(dec, b)
       IN  /\ Sample(b)
           /\ lsym' = cur
           /\ strayed' = (strayed \/ (nclean + 1 >= BUFFER /\ u.result /\ u.d.subsec # lq))
    /\ nclean' = nclean + 1
    /\ UNCHANGED <<lphase, lq>>
    /\ UNCHANGED <<readerVars, ringVars, frameVars, timeVars>>

NextLock ==
    \/ \E b \in {0, 1} : NoiseSample(b)
    \/ \E q \in 0 .. SUBSEC_ - 1, sym \in {ZERO, ONE, MARK} : StartClean(q, sym)
    \/ \E sym \in {ZERO, ONE, MARK} : CleanSample(sym)

InitRing == RingInit /\ FrameIdle /\ TimeIdle /\ SyncInit

SpecRing == InitRing /\ [][NextRing]_vars

(***************************************************************************)
(* SpecFrame: the transmitter sends the tail of a minute and then a whole  *)
(* minute; each second the decoder appends the received symbol to its ring *)
(* (the end of decode_symbol); after the 60th symbol of the minute the     *)
(* caller runs decode_minute.                                              *)
(***************************************************************************)

FrameInit ==
    /\ symbols = circular_symbol_array(SYMBOLS, SymbolBits)
    /\ symbol_count = 0
    /\ window = <<>>
    /\ fphase = "lead"
    /\ ftime \in FrameTimes
    /\ fpos \in 0 .. 59
    /\ nsub = 0
    /\ m = CallerTime
    /\ dm_result = "none"

\* The tail of decode_symbol: count the symbol and append it to the ring.
AppendSymbol(v) ==
    /\ symbol_count' = symbol_count + 1
    /\ symbols' = circular_symbol_array_put(SYMBOLS, SymbolBits, symbols, v).a
    /\ window' = Append1(window, 60, v)

EmitLead ==
    /\ fphase = "lead"
    /\ AppendSymbol(EncodeFrame(ftime)[fpos])
    /\ fpos' = (fpos + 1) % 60
    /\ fphase' = IF fpos = 59 THEN "frame" ELSE "lead"
    /\ UNCHANGED <<ftime, nsub, m, dm_result, ringVars, timeVars, syncVars>>

EmitFrame ==
    /\ fphase = "frame"
    /\ fpos < 60
    /\ LET sent == EncodeFrame(ftime)[fpos]
       IN  \E v \in (IF nsub < MaxSubst THEN Symbol ELSE {sent}) :
               /\ AppendSymbol(v)
               /\ nsub' = IF v # sent THEN nsub + 1 ELSE nsub
    /\ fpos' = fpos + 1
    /\ UNCHANGED <<fphase, ftime, m, dm_result, ringVars, timeVars, syncVars>>

DecodeMinute ==
    /\ fphase = "frame"
    /\ fpos = 60
    /\ LET r == decode_minute(symbols, m)
       IN  /\ m' = r.m
           /\ dm_result' = r.result
    /\ fphase' = "decoded"
    /\ UNCHANGED <<symbols, symbol_count, window, ftime, fpos, nsub, ringVars, timeVars, syncVars>>

NextFrame ==
    \/ EmitLead
    \/ EmitFrame
    \/ DecodeMinute

InitFrame == FrameInit /\ RingIdle /\ TimeIdle /\ SyncInit

SpecFrame == InitFrame /\ [][NextFrame]_vars

InitTime == TimeInit /\ RingIdle /\ FrameIdle /\ SyncInit

SpecTime == InitTime /\ [][NextTime]_vars

InitSync == SyncInit /\ RingIdle /\ FrameIdle /\ TimeIdle

SpecSync == InitSync /\ [][NextSync]_vars

InitSnap == SnapInit /\ RingIdle /\ FrameIdle /\ TimeIdle

SpecSnap == InitSnap /\ [][NextSnap]_vars

InitLock == LockInit /\ RingIdle /\ FrameIdle /\ TimeIdle

SpecLock == InitLock /\ [][NextLock]_vars

(***************************************************************************)
(* What the claims say of a window of 60 received symbols w (w[1] is the   *)
(* symbol of position 0).                                                  *)
(***************************************************************************)
MarkPositions == {0, 9, 19, 29, 39, 49, 59}

ZeroPositions == {4, 14, 24, 34, 44, 54, 10, 11, 20, 21, 35}

TemplateOK(w) ==
    \A i \in 0 .. 59 :
        /\ (i \in MarkPositions) = (w[i + 1] = MARK)
        /\ (i \in ZeroPositions) => (w[i + 1] = ZERO)

\* The decades of the fields: positions of weight 1, 2, 4, 8 (-1: none).
FieldDecades ==
    { <<53, 52, 51, 50>>, <<48, 47, 46, 45>>,
      <<33, 32, 31, 30>>, <<28, 27, 26, 25>>, <<23, 22, -1, -1>>,
      <<18, 17, 16, 15>>, <<13, 12, -1, -1>>,
      <<8, 7, 6, 5>>, <<3, 2, 1, -1>>,
      <<55, -1, -1, -1>>, <<56, -1, -1, -1>>, <<58, 57, -1, -1>>,
      <<43, 42, 41, 40>> }

WindowDigit(w, p) == IF p < 0 THEN 0 ELSE w[p + 1]

DecadeSum(w, g) ==
    WindowDigit(w, g[1]) + 2 * WindowDigit(w, g[2]) +
    4 * WindowDigit(w, g[3]) + 8 * WindowDigit(w, g[4])

SignCode(w) == DecadeSum(w, <<38, 37, 36, -1>>)

(***************************************************************************)
(* C1 (stated as claimed): a well-formed frame, received as sent after any *)
(* number of earlier symbols, decodes successfully to the time sent, with  *)
(* second = 0.                                                             *)
(***************************************************************************)
C1_FrameRoundTrip ==
    (fphase = "decoded" /\ nsub = 0) => (dm_result = TRUE /\ m = ftime)

(***************************************************************************)
(* C2 (stated as claimed): once SYMBOLS symbols have been put, at(i) is    *)
(* the symbol put SYMBOLS - i puts ago, for every i; and after every       *)
(* declared second at(SYMBOLS - 1) is the symbol just classified.          *)
(***************************************************************************)
C2_SymbolRingReadBack ==
    /\ symbol_count >= SYMBOLS =>
          \A i \in 0 .. SYMBOLS - 1 :
              circular_symbol_array_at(SYMBOLS, SymbolBits, symbols, i) = window[i + 1]
    /\ symbol_count >= 1 =>
          circular_symbol_array_at(SYMBOLS, SymbolBits, symbols, SYMBOLS - 1)
              = window[Len(window)]

(***************************************************************************)
(* C5 (stated as claimed): whenever the last 60 symbols violate the        *)
(* mark/zero template, decode_minute returns false, at every cursor.       *)
(***************************************************************************)
C5_SkeletonRejection ==
    (fphase = "decoded" /\ ~TemplateOK(window)) => dm_result = FALSE

(***************************************************************************)
(* C6 (stated as claimed): on a window that satisfies the template,        *)
(* decode_minute returns true exactly when no decade sums above 9 and the  *)
(* DUT1 sign code is 2 or 5.                                               *)
(***************************************************************************)
C6_BcdAndSignRejection ==
    (fphase = "decoded" /\ TemplateOK(window)) =>
        (dm_result = (/\ \A g \in FieldDecades : DecadeSum(window, g) <= 9
                      /\ SignCode(window) \in {2, 5}))

(***************************************************************************)
(* C7 (stated as claimed): a call of decode_minute that returns false      *)
(* leaves the caller's wwvb_time and the decoder's state as they were.     *)
(***************************************************************************)
C7_NoPartialResult ==
    [][(fphase = "frame" /\ fphase' = "decoded" /\ dm_result' = FALSE) =>
           (m' = m /\ symbols' = symbols /\ symbol_count' = symbol_count)]_vars

(***************************************************************************)
(* What the claims say of a wwvb_time.                                     *)
(***************************************************************************)

\* June 30 and December 31 as days of the year.
LeapSecondDays(ly) == IF ly = 1 THEN {182, 366} ELSE {181, 365}

\* The last minute of a leap-second day, with a leap second pending.
LeapMinute(t) ==
    /\ t.ls = 1
    /\ t.hour = 23
    /\ t.minute = 59
    /\ t.yday \in LeapSecondDays(t.ly)

Called(op) == last.op = op

\* The call carried the hour from 23 to 0.
HourCarried == prev.hour = 23 /\ ww.hour = 0

(***************************************************************************)
(* C8: in a leap-second minute with dut1 < 0, advance_seconds(1) from      *)
(* second 59 yields second 60 and changes nothing else; advance_seconds(1) *)
(* from second 60 yields 00:00:00 of the next day with ls cleared and dut1 *)
(* increased by exactly 10.  No call changes ls or dut1 unless it leaves   *)
(* the last minute of a leap-second day with ls set.                       *)
(***************************************************************************)
C8_LeapSecondInsertion ==
    /\ (Called("advance_seconds") /\ last.n = 1 /\ LeapMinute(prev) /\ prev.dut1 < 0) =>
          /\ prev.second = 59 => ww = [prev EXCEPT !.second = 60]
          /\ prev.second = 60 =>
                /\ ww.second = 0 /\ ww.minute = 0 /\ ww.hour = 0
                /\ ww.yday # prev.yday
                /\ ww.ls = 0
                /\ ww.dut1 = prev.dut1 + 10
    /\ (~Called("none") /\ (ww.ls # prev.ls \/ ww.dut1 # prev.dut1)) =>
          /\ prev.ls = 1
          /\ prev.yday \in LeapSecondDays(prev.ly)
          /\ HourCarried

\* The second step of the test "test leap second": 2016, day 366, 23:59:60.
C8_Witness ==
    /\ Called("advance_seconds") /\ last.n = 1
    /\ prev = wwvb_time(366, 16, 23, 59, 60, 1, 1, 0, -4)
    /\ ww.second = 0 /\ ww.ls = 0 /\ ww.dut1 = 6

(***************************************************************************)
(* C9: a call changes the dst code only when it carries the hour from 23   *)
(* to 0; then code 1 becomes 0 and code 2 becomes 3; codes 0 and 3 never   *)
(* change.                                                                 *)
(***************************************************************************)
C9_DstTransition ==
    ~Called("none") =>
        /\ ww.dst # prev.dst => HourCarried
        /\ HourCarried =>
              /\ prev.dst = 1 => ww.dst = 0
              /\ prev.dst = 2 => ww.dst = 3
        /\ prev.dst \in {0, 3} => ww.dst = prev.dst

\* The test "test dst next day", reached with advance_seconds(1) at 23:59:59.
C9_Witness ==
    /\ Called("advance_seconds") /\ last.n = 1
    /\ prev.second = 59 /\ prev.dst = 2
    /\ HourCarried
    /\ ww.dst = 3 /\ ww.second = 0

(***************************************************************************)
(* C10: after any sequence of advance_seconds(n), n >= 0, and              *)
(* advance_minutes calls on a decoded time, 0 <= second <                  *)
(* seconds_in_minute(), and every advance_seconds call left its loop.      *)
(***************************************************************************)
C10_SecondRange ==
    /\ 0 <= ww.second
    /\ ww.second < seconds_in_minute(ww)
    /\ adv_done

\* The last second of a 59-second minute, reached by advance_seconds.
C10_Witness ==
    /\ Called("advance_seconds")
    /\ seconds_in_minute(ww) = 59
    /\ ww.second = 58

(***************************************************************************)
(* C11: seconds_in_minute() returns 61 exactly when ls is set, the time is *)
(* 23:59, the day is June 30 or December 31 (by the ly flag) and dut1 is   *)
(* negative; 59 exactly when the same holds with dut1 positive; and 60 in  *)
(* every other case.                                                       *)
(***************************************************************************)
C11_SecondsInMinute ==
    seconds_in_minute(ww) =
        IF LeapMinute(ww) /\ ww.dut1 < 0 THEN 61
        ELSE IF LeapMinute(ww) /\ ww.dut1 > 0 THEN 59
        ELSE 60

\* The span advanced over from t holds no minute of a length other than 60.
SixtySecondSpan(t) == t.hour # 23 \/ t.yday \notin LeapSecondDays(t.ly)

\* Equal in year, yday, hour, minute, second, ly, dst and dut1.
SameButLs(a, b) == [a EXCEPT !.ls = 0] = [b EXCEPT !.ls = 0]

(***************************************************************************)
(* C12: of two times that differ only in ls, advanced by the same n >= 0   *)
(* over a span with no minute of a length other than 60, the one with ls   *)
(* set (stepped a minute at a time) and the one with ls clear (the fast    *)
(* path) end equal in year, yday, hour, minute, second, ly, dst and dut1.  *)
(***************************************************************************)
C12_PathEquivalence ==
    (Called("advance_seconds") /\ SixtySecondSpan(prev)) =>
        SameButLs(ww, advance_seconds([prev EXCEPT !.ls = 1 - prev.ls], last.n).t)

RECURSIVE MinuteByMinute(_, _)
\* n successive calls of advance_minutes(1).
MinuteByMinute(t, n) ==
    IF n = 0 THEN t ELSE MinuteByMinute(advance_minutes(t, 1), n - 1)

(***************************************************************************)
(* C13: advance_minutes(n), n >= 1, leaves the state that n successive     *)
(* calls of advance_minutes(1) leave.                                      *)
(***************************************************************************)
C13_AdvanceMinutesN ==
    Called("advance_minutes") => ww = MinuteByMinute(prev, last.n)

\* The Gregorian rule, on a full year number.
GregorianLeap(y) == y % 4 = 0 /\ (y % 100 # 0 \/ y % 400 = 0)

(***************************************************************************)
(* C14: a call that carries into a new year sets ly to 1 exactly when      *)
(* 2000 + (the new year) is a Gregorian leap year.                         *)
(***************************************************************************)
C14_LeapYearFlag ==
    (~Called("none") /\ ww.year # prev.year) =>
        ww.ly = (IF GregorianLeap(2000 + ww.year) THEN 1 ELSE 0)

(***************************************************************************)
(* What the claims say of the sampling decoder.                            *)
(***************************************************************************)
RECURSIVE SumBelow(_, _)
\* f[0] + ... + f[n - 1]
SumBelow(f, n) == IF n = 0 THEN 0 ELSE f[n - 1] + SumBelow(f, n - 1)

\* The slot of health_history written for the k-th entry of contrib.
ContribSlot(k) == (dec.symbol_count - Len(contrib) + k - 1) % SYMBOLS_

(***************************************************************************)
(* C15: after any sequence of update() calls, health is the sum of the     *)
(* entries of health_history; the entries are the health of the last       *)
(* SYMBOLS emitted symbols, 0 where no symbol was written yet; and an      *)
(* INVALID symbol has health 0.                                            *)
(***************************************************************************)
C15_HealthAggregate ==
    /\ dec.health = SumBelow(dec.health_history, SYMBOLS_)
    /\ \A k \in 1 .. Len(contrib) :
          /\ dec.health_history[ContribSlot(k)] = contrib[k].h
          /\ contrib[k].symbol = INVALID => contrib[k].h = 0
    /\ \A i \in 0 .. SYMBOLS_ - 1 :
          i >= dec.symbol_count => dec.health_history[i] = 0

\* More than SYMBOLS seconds declared, the last of them INVALID, and an
\* entry of positive health replaced before.
C15_Witness ==
    /\ flag
    /\ dec.symbol_count > SYMBOLS_
    /\ emitted = INVALID
    /\ pre.health > dec.health
    /\ dec.health > 0

\* Every index update() and decode_symbol() use is inside its array, and no
\* assert of at() fails: the next call can be made.
CanSample ==
    /\ dec.subsec \in 0 .. SUBSEC_ - 1
    /\ dec.sos \in 0 .. SUBSEC_ - 1
    /\ dec.signal.shift \in 0 .. BUFFER - 1
    /\ dec.symbols.shift \in 0 .. SymbolBits * SYMBOLS_ - 1
    /\ \A i \in OFFSET + p0 .. OFFSET + p4 - 1 :
          /\ i \in 0 .. BUFFER - 1
          /\ circular_bit_array_slot(BUFFER, dec.signal, i) \in 0 .. StorageBits(BUFFER) - 1

(***************************************************************************)
(* C16: whatever the samples, no SUBSEC + 2 consecutive calls of update()  *)
(* all return false, tss never exceeds SUBSEC + 1, and after every call    *)
(* the next call can be made.                                              *)
(***************************************************************************)
C16_ForcedBoundary ==
    /\ quiet <= SUBSEC_ + 1
    /\ dec.tss <= SUBSEC_ + 1
    /\ CanSample

\* A boundary forced by tss alone, after SUBSEC + 1 calls that returned
\* false.
C16_Witness ==
    /\ flag
    /\ pre.tss = SUBSEC_ + 1
    /\ dec.subsec # dec.sos /\ dec.subsec # pre.sos
    /\ dec.tss = 0

\* The call of update() (counted from 0) that admitted samples[k].
TickOf(k) == ticks - Len(samples) + k - 1

\* The asserted samples the ring retains whose tick index is p modulo SUBSEC.
Asserted(p) == { k \in 1 .. Len(samples) : samples[k] = 1 /\ TickOf(k) % SUBSEC_ = p }

(***************************************************************************)
(* C17: after every update(), for every phase p, counts[p] is the number   *)
(* of asserted samples retained in the ring of SUBSEC * HISTORY samples    *)
(* whose tick index is p modulo SUBSEC; so 0 <= counts[p] <= HISTORY.      *)
(***************************************************************************)
C17_CountsInvariant ==
    \A p \in 0 .. SUBSEC_ - 1 :
        /\ dec.counts[p] = Cardinality(Asserted(p))
        /\ 0 <= dec.counts[p]
        /\ dec.counts[p] <= HISTORY_

\* The ring has wrapped, the last call evicted an asserted sample and
\* admitted a clear one, and some phase is asserted throughout the ring.
C17_Witness ==
    /\ ticks > BUFFER
    /\ dec.counts[pre.subsec] = pre.counts[pre.subsec] - 1
    /\ \E p \in 0 .. SUBSEC_ - 1 : dec.counts[p] = HISTORY_

\* subsec after advancing is the new sos or the sos of the previous tick.
AtEstimate == dec.subsec = dec.sos \/ dec.subsec = pre.sos

\* tss is 0 after a call that returned true, one more than before otherwise.
TssFollows == dec.tss = (IF flag THEN 0 ELSE pre.tss + 1)

(***************************************************************************)
(* C19 (as claimed): with tss taken before the call and subsec after       *)
(* advancing, update() returns true if tss exceeds SUBSEC, false if tss is *)
(* below half of SUBSEC, and otherwise true exactly when subsec equals the *)
(* new sos or the previous tick's sos; tss is reset to 0 exactly on the    *)
(* calls that return true and incremented by 1 on every other call.  Half  *)
(* of SUBSEC is SUBSEC / 2 as the program computes it (25 of 50).          *)
(***************************************************************************)
C19_BoundaryRule_AsClaimed ==
    ticks > 0 =>
        /\ pre.tss > SUBSEC_ => flag
        /\ pre.tss < SUBSEC_ \div 2 => ~flag
        /\ (pre.tss <= SUBSEC_ /\ pre.tss >= SUBSEC_ \div 2) => (flag <=> AtEstimate)
        /\ TssFollows

(***************************************************************************)
(* C19 (amended): update() returns true if tss exceeds SUBSEC, false if    *)
(* tss is at most SUBSEC / 2 (integer division), and otherwise true        *)
(* exactly when subsec equals the new sos or the previous tick's sos; tss  *)
(* is reset to 0 exactly on the calls that return true and incremented by  *)
(* 1 on every other call.                                                  *)
(***************************************************************************)
C19_BoundaryRule ==
    ticks > 0 =>
        /\ pre.tss > SUBSEC_ => flag
        /\ pre.tss <= SUBSEC_ \div 2 => ~flag
        /\ (pre.tss <= SUBSEC_ /\ pre.tss > SUBSEC_ \div 2) => (flag <=> AtEstimate)
        /\ TssFollows

\* A call at tss = SUBSEC / 2 with subsec on the estimate, which returns
\* false.
C19_Witness ==
    /\ ticks > 0
    /\ pre.tss = SUBSEC_ \div 2
    /\ AtEstimate
    /\ ~flag
    /\ dec.tss = pre.tss + 1

\* Sample k (0 the oldest) of the SUBSEC most recently admitted samples; 0
\* where no sample was admitted yet.
RecentSample(k) ==
    LET idx == Len(samples) - SUBSEC_ + k + 1
    IN  IF idx >= 1 THEN samples[idx] ELSE 0

\* The number of asserted samples among samples i .. j-1 of the last second.
RecentCount(i, j) == Cardinality({ k \in i .. j - 1 : RecentSample(k) = 1 })

\* The reference classification of the last second.
ReferenceSymbol ==
    LET count_b == RecentCount(p1, p2)
        count_c == RecentCount(p2, p3)
    IN  IF count_c > lc \div 2 /\ count_b > lb \div 2 THEN MARK
        ELSE IF count_c > lc \div 2 THEN INVALID
        ELSE IF count_b > lb \div 2 THEN ONE
        ELSE ZERO

(***************************************************************************)
(* C20: at every declared boundary, wherever the ring cursor stands, the   *)
(* symbol appended is the reference classification of the SUBSEC most      *)
(* recently admitted samples.                                              *)
(***************************************************************************)
C20_SymbolClassification == flag => emitted = ReferenceSymbol

(***************************************************************************)
(* C18: with update() calls that each run to completion, every snapshot    *)
(* the reader accepts equals the decoder's symbol ring, counts, edges,     *)
(* subsec, sos and tss at one single instant between two update() calls,   *)
(* and two snapshots accepted with no update() between them are identical. *)
(***************************************************************************)
C18_ConsistentSnapshot ==
    /\ naccepted > 0 => snap = truth
    /\ (naccepted > 1 /\ ~between) => snap = snap_prev

\* A copy was discarded because update() ran during it, a snapshot that
\* holds an emitted symbol was accepted, and a second snapshot was accepted
\* with no update() in between.
C18_Witness ==
    /\ retried
    /\ naccepted = 2
    /\ ~between
    /\ snap.symbols # circular_symbol_array(SYMBOLS_, SymbolBits)

\* The difference of counts across the step from phase p to the next.
Derivative(p) == dec.counts[(p + 1) % SUBSEC_] - dec.counts[p]

(***************************************************************************)
(* C21 (as claimed): after every update() call, for every phase p in       *)
(* 0..SUBSEC-1, edges[p] = counts[(p+1) mod SUBSEC] - counts[p].           *)
(***************************************************************************)
C21_EdgesDerivative_AsClaimed ==
    \A p \in 0 .. SUBSEC_ - 1 : dec.edges[p] = Derivative(p)

(***************************************************************************)
(* C21 (amended): after every update() call, for the phase p the call      *)
(* updated (subsec before the call), edges[p] = counts[(p+1) mod SUBSEC]   *)
(* - counts[p].                                                            *)
(***************************************************************************)
C21_EdgesDerivative ==
    ticks > 0 => dec.edges[pre.subsec] = Derivative(pre.subsec)

\* The call changed counts at its phase and gave that phase a rising edge,
\* and the entry of the phase before it, not recomputed, is no longer the
\* difference of its two counts.
C21_Witness ==
    /\ ticks > 0
    /\ dec.counts[pre.subsec] # pre.counts[pre.subsec]
    /\ dec.edges[pre.subsec] > 0
    /\ \E q \in 0 .. SUBSEC_ - 1 :
          /\ next_subsec(q) = pre.subsec
          /\ dec.edges[q] # Derivative(q)

\* The last day of a year, by the leap-year flag.
LastDay(ly) == IF ly = 1 THEN 366 ELSE 365

(***************************************************************************)
(* C22: a call that advances past 23:59 carries into day 1 of the next     *)
(* year exactly when the day just completed is the last day of the year    *)
(* (365 when ly = 0, 366 when ly = 1), and otherwise enters the next day   *)
(* of the same year; so day 365 of a leap year is followed by day 366.     *)
(***************************************************************************)
C22_DayToYearCarry ==
    HourCarried =>
        IF prev.yday = LastDay(prev.ly)
        THEN ww.yday = 1 /\ ww.year = prev.year + 1
        ELSE ww.yday = prev.yday + 1 /\ ww.year = prev.year

(***************************************************************************)
(* C23: whenever decode_minute returns true, whatever symbols of {ZERO,    *)
(* ONE, MARK, INVALID} the ring holds, the wwvb_time produced has yday in  *)
(* 1..366, hour in 0..23, minute in 0..59, ly and ls in {0, 1}, dst in     *)
(* 0..3, |dut1| <= 9 and second = 0.                                       *)
(***************************************************************************)
C23_DecodedFieldsInRange ==
    (fphase = "decoded" /\ dm_result = TRUE) =>
        /\ m.yday \in 1 .. 366
        /\ m.hour \in 0 .. 23
        /\ m.minute \in 0 .. 59
        /\ m.ly \in {0, 1}
        /\ m.ls \in {0, 1}
        /\ m.dst \in 0 .. 3
        /\ m.dut1 \in -9 .. 9
        /\ m.second = 0

\* The history window holds clean samples only.
CleanWindow == lphase = "clean" /\ nclean >= BUFFER

(***************************************************************************)
(* C24: when from some tick on the input is a noise-free signal of period  *)
(* SUBSEC whose pulses start at phase q, then on every tick after the      *)
(* history window holds this signal only, sos = q; and from LockTicks      *)
(* ticks later on, update() returns true exactly on the ticks that leave   *)
(* subsec = q, so every boundary follows the one before by SUBSEC ticks;   *)
(* whatever state the noise before has left the decoder in.                *)
(***************************************************************************)
C24_LockOnCleanSignal ==
    CleanWindow =>
        /\ dec.sos = lq
        /\ nclean >= BUFFER + LockTicks => (flag <=> dec.subsec = lq)

\* A boundary on phase q with tss = SUBSEC - 1 before the call, late in a
\* clean signal of mixed symbols that had a boundary off phase q earlier.
C24_Witness ==
    /\ CleanWindow
    /\ nclean >= BUFFER + LockTicks + SUBSEC_
    /\ strayed
    /\ flag
    /\ dec.subsec = lq
    /\ pre.tss = SUBSEC_ - 1
    /\ lq # 0
    /\ emitted = MARK

(***************************************************************************)
(* C3 (stated as claimed): once N bits have been put, at(i) reads the      *)
(* physical slot (cursor + i) mod N, which holds the bit put N - i puts    *)
(* ago, and that slot lies in 0..N-1.                                      *)
(***************************************************************************)
C3_BitRingIndexMapping ==
    (target = "cba" /\ nputs >= CbaN) =>
        \A i \in 0 .. CbaN - 1 :
            /\ circular_bit_array_slot(CbaN, cba, i) = (cba.shift + i) % CbaN
            /\ circular_bit_array_slot(CbaN, cba, i) \in 0 .. CbaN - 1
            /\ circular_bit_array_at(CbaN, cba, i) = hist[i + 1]

(***************************************************************************)
(* C4: every put, on the bit array and on the symbol array, returns the    *)
(* value stored by the put made exactly N puts earlier, and 0 while fewer  *)
(* than N puts have been made.                                             *)
(***************************************************************************)
C4_PutReturnsEvicted == nputs > 0 => ret = evicted

\* A symbol put that evicts a value with set and clear bits, after the
\* cursor has wrapped twice.
C4_Witness ==
    /\ target = "csa"
    /\ nputs > 2 * CsaN
    /\ evicted = 9
    /\ ret = 9

=============================================================================
